---------------------------- MODULE Spec2Model ----------------------------
(***************************************************************************)
(* Model of scripts/extract_keywords.py: the BibTeX entry segmenter, the   *)
(* title extractor, the keyword extractor, the frequency aggregator and    *)
(* the pipeline driver.                                                    *)
(*                                                                         *)
(* A Python str is modelled as a sequence of characters; a character is a  *)
(* one-character TLA+ string, except the three non-ASCII code points       *)
(* "E_acute" (U+00C9), "e_acute" (U+00E9) and "combining_acute" (U+0301).  *)
(***************************************************************************)
EXTENDS Integers, Sequences, FiniteSets, TLC

VARIABLES
  \* iter_bib_entries, run line by line
  bib_lines, pos, current, depth, inside, yielded,
  \* the keyword extractor, run on one title
  kpc, title, phrases, tokens, keywords,
  \* main
  pc, bib_exists, bib_file, min_freq, text, entries, titles, pubs, freq,
  out_dir_exists, out_file, exit_status, stderr

vars == << bib_lines, pos, current, depth, inside, yielded,
           kpc, title, phrases, tokens, keywords,
           pc, bib_exists, bib_file, min_freq, text, entries, titles, pubs, freq,
           out_dir_exists, out_file, exit_status, stderr >>

segVars  == << bib_lines, pos, current, depth, inside, yielded >>
kwVars   == << kpc, title, phrases, tokens, keywords >>
mainVars == << pc, bib_exists, bib_file, min_freq, text, entries, titles, pubs, freq,
               out_dir_exists, out_file, exit_status, stderr >>

---------------------------------------------------------------------------
(* Characters and the str methods the program uses.                        *)

UPPER == <<"A","B","C","D","E","F","G","H","I","J","K","L","M","N","O","P","Q","R","S","T","U","V","W","X","Y","Z">>
LOWER == <<"a","b","c","d","e","f","g","h","i","j","k","l","m","n","o","p","q","r","s","t","u","v","w","x","y","z">>

\* Every character of the model, in ascending code point order.
CODEPOINT_ORDER ==
  <<"\n">> \o <<" ">> \o <<"\"">> \o <<",","-","0","1","2","3","4","5","6","7","8","9","=","@">> \o UPPER \o LOWER \o <<"{","}">>
  \o <<"E_acute", "e_acute", "combining_acute">>

IndexOf(c, s) == CHOOSE i \in 1..Len(s) : s[i] = c
IsIn(c, s) == \E i \in 1..Len(s) : s[i] = c
ord(c) == IndexOf(c, CODEPOINT_ORDER)

IsAsciiLetter(c) == IsIn(c, UPPER) \/ IsIn(c, LOWER)
IsSpace(c) == c \in {" ", "\n"}

lower_char(c) ==
  IF IsIn(c, UPPER) THEN LOWER[IndexOf(c, UPPER)]
  ELSE IF c = "E_acute" THEN "e_acute" ELSE c
upper_char(c) ==
  IF IsIn(c, LOWER) THEN UPPER[IndexOf(c, LOWER)]
  ELSE IF c = "e_acute" THEN "E_acute" ELSE c

Min(S) == CHOOSE x \in S : \A y \in S : x <= y

str_lower(s) == [i \in 1..Len(s) |-> lower_char(s[i])]

str_capitalize(s) ==
  IF s = <<>> THEN <<>> ELSE <<upper_char(Head(s))>> \o str_lower(Tail(s))

IsCased(c) == IsAsciiLetter(c) \/ c \in {"E_acute", "e_acute"}
str_title(s) ==
  [i \in 1..Len(s) |-> IF i > 1 /\ IsCased(s[i - 1]) THEN lower_char(s[i]) ELSE upper_char(s[i])]

\* p in s
str_contains(p, s) ==
  \E i \in 1..(Len(s) - Len(p) + 1) : SubSeq(s, i, i + Len(p) - 1) = p

\* s.replace(old, new): the occurrences of old, leftmost first, not overlapping
RECURSIVE str_replace(_, _, _)
str_replace(s, old, new) ==
  LET occ == { i \in 1..(Len(s) - Len(old) + 1) : SubSeq(s, i, i + Len(old) - 1) = old }
  IN  IF occ = {} THEN s
      ELSE LET i == Min(occ)
           IN  SubSeq(s, 1, i - 1) \o new
               \o str_replace(SubSeq(s, i + Len(old), Len(s)), old, new)

RECURSIVE str_lstrip(_)
str_lstrip(s) == IF s # <<>> /\ IsSpace(Head(s)) THEN str_lstrip(Tail(s)) ELSE s
RECURSIVE str_rstrip(_)
str_rstrip(s) ==
  IF s # <<>> /\ IsSpace(s[Len(s)]) THEN str_rstrip(SubSeq(s, 1, Len(s) - 1)) ELSE s
str_strip(s) == str_rstrip(str_lstrip(s))

str_count(s, c) == Cardinality({ i \in 1..Len(s) : s[i] = c })

RECURSIVE str_join(_, _)
str_join(sep, parts) ==
  IF parts = <<>> THEN <<>>
  ELSE IF Len(parts) = 1 THEN parts[1]
  ELSE parts[1] \o sep \o str_join(sep, Tail(parts))

\* str < str: lexicographic on code points, a proper prefix first
RECURSIVE str_lt(_, _)
str_lt(a, b) ==
  IF b = <<>> THEN FALSE
  ELSE IF a = <<>> THEN TRUE
  ELSE IF Head(a) # Head(b) THEN ord(Head(a)) < ord(Head(b))
  ELSE str_lt(Tail(a), Tail(b))

RECURSIVE sorted(_)
sorted(S) ==
  IF S = {} THEN <<>>
  ELSE LET m == CHOOSE x \in S : \A y \in S \ {x} : str_lt(x, y)
       IN  <<m>> \o sorted(S \ {m})

\* unicodedata.normalize('NFKD', c), for the characters of the model
NFKD(c) ==
  IF c = "e_acute" THEN <<"e", "combining_acute">>
  ELSE IF c = "E_acute" THEN <<"E", "combining_acute">>
  ELSE <<c>>
combining(c) == IF c = "combining_acute" THEN 230 ELSE 0

\* ''.join(c for c in NFKD(text) if not combining(c)); the characters that
\* NFKD leaves alone and that are not combining pass through unchanged
RECURSIVE strip_accents(_)
strip_accents(s) ==
  LET changed == { i \in 1..Len(s) : NFKD(s[i]) # <<s[i]>> \/ combining(s[i]) # 0 }
  IN  IF changed = {} THEN s
      ELSE LET i == Min(changed)
           IN  SubSeq(s, 1, i - 1)
               \o SelectSeq(NFKD(s[i]), LAMBDA c : combining(c) = 0)
               \o strip_accents(SubSeq(s, i + 1, Len(s)))

---------------------------------------------------------------------------
(* The lookup tables.                                                      *)

\* PHRASES: the curated phrase list, in scan order.
PHRASES ==
  << <<"k","n","o","w","l","e","d","g","e"," ","g","r","a","p","h">>,
     <<"k","n","o","w","l","e","d","g","e"," ","g","r","a","p","h","s">>,
     <<"c","l","i","n","i","c","a","l"," ","g","u","i","d","e","l","i","n","e">>,
     <<"c","l","i","n","i","c","a","l"," ","g","u","i","d","e","l","i","n","e","s">>,
     <<"s","e","m","a","n","t","i","c"," ","w","e","b">>,
     <<"s","e","m","a","n","t","i","c"," ","c","h","a","n","g","e">>,
     <<"m","a","c","h","i","n","e"," ","l","e","a","r","n","i","n","g">>,
     <<"d","a","t","a"," ","s","h","a","r","i","n","g">>,
     <<"e","x","p","l","a","i","n","a","b","l","e"," ","a","i">>,
     <<"h","y","b","r","i","d"," ","a","i">>,
     <<"o","n","t","o","l","o","g","y">>,
     <<"o","n","t","o","l","o","g","i","e","s">>,
     <<"m","a","p","p","i","n","g">>,
     <<"m","a","p","p","i","n","g","s">>,
     <<"r","e","c","o","m","m","e","n","d","a","t","i","o","n">>,
     <<"r","e","c","o","m","m","e","n","d","a","t","i","o","n","s">>,
     <<"e","-","h","e","a","l","t","h">>,
     <<"e","h","e","a","l","t","h">> >>

\* NORM: the singular/plural/variant normalization table.
NORM ==
  (<<"k","n","o","w","l","e","d","g","e"," ","g","r","a","p","h","s">> :> <<"K","n","o","w","l","e","d","g","e"," ","G","r","a","p","h","s">>) @@
  (<<"k","n","o","w","l","e","d","g","e"," ","g","r","a","p","h">> :> <<"K","n","o","w","l","e","d","g","e"," ","G","r","a","p","h","s">>) @@
  (<<"c","l","i","n","i","c","a","l"," ","g","u","i","d","e","l","i","n","e","s">> :> <<"C","l","i","n","i","c","a","l"," ","G","u","i","d","e","l","i","n","e","s">>) @@
  (<<"c","l","i","n","i","c","a","l"," ","g","u","i","d","e","l","i","n","e">> :> <<"C","l","i","n","i","c","a","l"," ","G","u","i","d","e","l","i","n","e","s">>) @@
  (<<"s","e","m","a","n","t","i","c"," ","w","e","b">> :> <<"S","e","m","a","n","t","i","c"," ","W","e","b">>) @@
  (<<"s","e","m","a","n","t","i","c"," ","c","h","a","n","g","e">> :> <<"S","e","m","a","n","t","i","c"," ","C","h","a","n","g","e">>) @@
  (<<"m","a","c","h","i","n","e"," ","l","e","a","r","n","i","n","g">> :> <<"M","a","c","h","i","n","e"," ","L","e","a","r","n","i","n","g">>) @@
  (<<"d","a","t","a"," ","s","h","a","r","i","n","g">> :> <<"D","a","t","a"," ","S","h","a","r","i","n","g">>) @@
  (<<"e","x","p","l","a","i","n","a","b","l","e"," ","a","i">> :> <<"E","x","p","l","a","i","n","a","b","l","e"," ","A","I">>) @@
  (<<"h","y","b","r","i","d"," ","a","i">> :> <<"H","y","b","r","i","d"," ","A","I">>) @@
  (<<"o","n","t","o","l","o","g","i","e","s">> :> <<"O","n","t","o","l","o","g","y">>) @@
  (<<"o","n","t","o","l","o","g","y">> :> <<"O","n","t","o","l","o","g","y">>) @@
  (<<"m","a","p","p","i","n","g","s">> :> <<"M","a","p","p","i","n","g">>) @@
  (<<"m","a","p","p","i","n","g">> :> <<"M","a","p","p","i","n","g">>) @@
  (<<"r","e","c","o","m","m","e","n","d","a","t","i","o","n","s">> :> <<"R","e","c","o","m","m","e","n","d","a","t","i","o","n">>) @@
  (<<"r","e","c","o","m","m","e","n","d","a","t","i","o","n">> :> <<"R","e","c","o","m","m","e","n","d","a","t","i","o","n">>) @@
  (<<"e","-","h","e","a","l","t","h">> :> <<"e","H","e","a","l","t","h">>) @@
  (<<"e","h","e","a","l","t","h">> :> <<"e","H","e","a","l","t","h">>)

\* STOPWORDS: the stopword set.
STOPWORDS ==
  { <<"a">>, <<"a","d","a","p","t","i","v","e">>, <<"a","n">>, <<"a","n","a","l","y","s","i","s">>,
    <<"a","n","d">>, <<"a","p","p","r","o","a","c","h">>, <<"b","a","s","e","d">>, <<"b","e">>,
    <<"b","e","t","w","e","e","n">>, <<"b","y">>, <<"c","a","s","e">>, <<"c","o","m","b","i","n","i","n","g">>,
    <<"c","o","n","s","t","r","u","c","t","i","o","n">>, <<"d","r","i","v","e","n">>, <<"d","y","n","a","m","i","c">>, <<"e","v","a","l","u","a","t","i","o","n">>,
    <<"e","v","o","l","v","i","n","g">>, <<"e","x","p","l","o","i","t","a","t","i","o","n">>, <<"e","x","t","e","r","n","a","l">>, <<"f","o","r">>,
    <<"f","o","r","m","a","l">>, <<"f","o","r","m","a","l","i","s","a","t","i","o","n">>, <<"f","o","r","m","a","l","i","z","i","n","g">>, <<"f","r","a","m","e","w","o","r","k">>,
    <<"f","r","o","m">>, <<"g","e","n","e","r","a","l">>, <<"g","e","n","e","r","a","l","i","z","e","d">>, <<"g","e","n","e","r","a","l","i","z","i","n","g">>,
    <<"i","m","p","a","c","t">>, <<"i","n">>, <<"i","n","t","e","r","n","a","l">>, <<"i","n","t","o">>,
    <<"l","e","v","e","l">>, <<"m","a","i","n","t","e","n","a","n","c","e">>, <<"m","e","t","h","o","d">>, <<"m","o","d","e","l">>,
    <<"m","o","d","e","l","s">>, <<"m","u","l","t","i">>, <<"m","u","l","t","i","-","l","e","v","e","l">>, <<"o","f">>,
    <<"o","n">>, <<"o","v","e","r">>, <<"p","a","p","e","r">>, <<"p","l","a","t","f","o","r","m">>,
    <<"s","h","o","r","t">>, <<"s","t","u","d","y">>, <<"s","u","p","p","o","r","t">>, <<"s","y","s","t","e","m">>,
    <<"t","h","e">>, <<"t","h","e","i","r">>, <<"t","o">>, <<"t","o","w","a","r","d">>,
    <<"t","o","w","a","r","d","s">>, <<"u","n","d","e","r">>, <<"u","s","i","n","g">>, <<"v","i","a">>,
    <<"w","i","t","h">>, <<"w","i","t","h","i","n">> }

NORM_get(k, default) == IF k \in DOMAIN NORM THEN NORM[k] ELSE default

\* Python's None, a value that is no str
None == <<"<None>">>

---------------------------------------------------------------------------
(* The keyword extractor.                                                  *)

\* WORD_RE = [A-Za-z][A-Za-z\-]{2,}
IsWordChar(c) == IsAsciiLetter(c) \/ c = "-"

\* the length of the run of word characters that starts at position i
word_run(s, i) ==
  Min({ j \in i..(Len(s) + 1) : j > Len(s) \/ ~IsWordChar(s[j]) }) - i

\* WORD_RE.findall(s): leftmost, greedy, non-overlapping matches
RECURSIVE WORD_RE_findall(_)
WORD_RE_findall(s) ==
  LET starts == { i \in 1..Len(s) : IsAsciiLetter(s[i]) /\ word_run(s, i + 1) >= 2 }
  IN  IF starts = {} THEN <<>>
      ELSE LET i == Min(starts)
               n == 1 + word_run(s, i + 1)
           IN  <<SubSeq(s, i, i + n - 1)>> \o WORD_RE_findall(SubSeq(s, i + n, Len(s)))

RECURSIVE phrase_scan_from(_, _)
phrase_scan_from(lower_title, i) ==
  IF i > Len(PHRASES) THEN <<>>
  ELSE LET p == PHRASES[i]
       IN  (IF str_contains(p, lower_title) THEN <<NORM_get(p, str_title(p))>> ELSE <<>>)
           \o phrase_scan_from(lower_title, i + 1)

phrase_scan(lower_title) == phrase_scan_from(lower_title, 1)

\* for p in PHRASES: lower = lower.replace(p, ' ')
RECURSIVE erase_phrases(_, _)
erase_phrases(lower, i) ==
  IF i > Len(PHRASES) THEN lower
  ELSE erase_phrases(str_replace(lower, PHRASES[i], <<" ">>), i + 1)

token_norm(w) == NORM_get(w, str_capitalize(w))

\* the words that survive the three `continue` tests, as a set of normalized tokens
token_set(t, used_phrases) ==
  LET lower == erase_phrases(strip_accents(str_lower(t)), 1)
      words == WORD_RE_findall(lower)
      used  == { str_lower(used_phrases[i]) : i \in 1..Len(used_phrases) }
      kept  == { j \in 1..Len(words) :
                   /\ words[j] \notin STOPWORDS
                   /\ Len(words[j]) >= 4
                   /\ str_lower(token_norm(words[j])) \notin used }
  IN  { token_norm(words[j]) : j \in kept }

\* the tokens in the order the words appear in the title, not sorted
tokenize_remainder_unsorted(t, used_phrases) ==
  LET lower == erase_phrases(strip_accents(str_lower(t)), 1)
      words == WORD_RE_findall(lower)
      toks  == token_set(t, used_phrases)
      first == { j \in 1..Len(words) :
                   /\ token_norm(words[j]) \in toks
                   /\ \A k \in 1..(j - 1) : token_norm(words[k]) # token_norm(words[j]) }
      RECURSIVE walk(_)
      walk(j) == IF j > Len(words) THEN <<>>
                 ELSE (IF j \in first THEN <<token_norm(words[j])>> ELSE <<>>) \o walk(j + 1)
  IN  walk(1)

tokenize_remainder(t, used_phrases) == sorted(token_set(t, used_phrases))

\* the body of the loop of build_publication_keywords, for one title
publication_keywords(t) ==
  LET lt == strip_accents(str_lower(t))
      ph == phrase_scan(lt)
  IN  ph \o tokenize_remainder(t, ph)

RECURSIVE build_publication_keywords(_)
build_publication_keywords(ts) ==
  IF ts = <<>> THEN <<>>
  ELSE (IF Head(ts) = None \/ Head(ts) = <<>> THEN <<>>
        ELSE << [title |-> Head(ts), keywords |-> publication_keywords(Head(ts))] >>)
       \o build_publication_keywords(Tail(ts))

---------------------------------------------------------------------------
(* The entry segmenter.                                                    *)

NL == <<"\n">>

\* s.splitlines(), for the line terminator "\n": a line ends at every "\n",
\* and a last line without terminator counts when it is not empty
str_splitlines(s) ==
  LET nl     == { i \in 1..Len(s) : s[i] = "\n" }
      count  == Cardinality(nl) + (IF s # <<>> /\ s[Len(s)] # "\n" THEN 1 ELSE 0)
      nth(k) == CHOOSE x \in nl : Cardinality({ y \in nl : y <= x }) = k
      from(k) == IF k = 1 THEN 1 ELSE nth(k - 1) + 1
      to(k)   == IF k <= Cardinality(nl) THEN nth(k) - 1 ELSE Len(s)
  IN  [k \in 1..count |-> SubSeq(s, from(k), to(k))]

\* line.strip().startswith('@')
starts_record(line) == LET s == str_strip(line) IN s # <<>> /\ Head(s) = "@"

brace_delta(line) == str_count(line, "{") - str_count(line, "}")

\* What the generator yields: '\n'.join(current).  `lines` (the numbers of
\* the input lines in current) and `by` (the yield statement that produced
\* it: "flush" line 71, "depth" line 78, "eof" line 82) are bookkeeping.
Entry(ls, cur, why) ==
  [ text  |-> str_join(NL, [i \in 1..Len(cur) |-> ls[cur[i]]]),
    lines |-> cur,
    by    |-> why ]

seg_init == [current |-> <<>>, depth |-> 0, inside |-> FALSE, out |-> <<>>]

\* the loop body with the `current = []` of line 72 left out
seg_line_no_reset(st, ls, k) ==
  LET line    == ls[k]
      flushed == starts_record(line) /\ st.current # <<>>
      out1    == IF flushed THEN Append(st.out, Entry(ls, st.current, "flush")) ELSE st.out
      inside1 == starts_record(line) \/ st.inside
  IN  IF ~inside1 THEN [st EXCEPT !.out = out1]
      ELSE LET cur2   == Append(st.current, k)
               depth2 == st.depth + brace_delta(line)
           IN  IF depth2 <= 0 /\ cur2 # <<>>
               THEN [current |-> <<>>, depth |-> depth2, inside |-> FALSE,
                     out |-> Append(out1, Entry(ls, cur2, "depth"))]
               ELSE [current |-> cur2, depth |-> depth2, inside |-> TRUE, out |-> out1]

\* One iteration of `for line in bib_text.splitlines()`, on line number k.
\* current holds line numbers; the text of a line is ls[k].
seg_line(st, ls, k) ==
  LET line    == ls[k]
      flushed == starts_record(line) /\ st.current # <<>>
      out1    == IF flushed THEN Append(st.out, Entry(ls, st.current, "flush")) ELSE st.out
      cur1    == IF flushed THEN <<>> ELSE st.current
      inside1 == starts_record(line) \/ st.inside
  IN  IF ~inside1 THEN [st EXCEPT !.out = out1, !.current = cur1]
      ELSE LET cur2   == Append(cur1, k)
               depth2 == st.depth + brace_delta(line)
           IN  IF depth2 <= 0 /\ cur2 # <<>>
               THEN [current |-> <<>>, depth |-> depth2, inside |-> FALSE,
                     out |-> Append(out1, Entry(ls, cur2, "depth"))]
               ELSE [current |-> cur2, depth |-> depth2, inside |-> TRUE, out |-> out1]

\* after the loop: `if current: yield`
seg_end(st, ls) ==
  IF st.current # <<>>
  THEN [st EXCEPT !.out = Append(st.out, Entry(ls, st.current, "eof")), !.current = <<>>]
  ELSE st

RECURSIVE seg_run(_, _, _)
seg_run(st, ls, k) ==
  IF k > Len(ls) THEN seg_end(st, ls) ELSE seg_run(seg_line(st, ls, k), ls, k + 1)

\* list(iter_bib_entries(bib_text)): the yielded entries, in order
iter_bib_entries(bib_text) ==
  LET ls  == str_splitlines(bib_text)
      out == seg_run(seg_init, ls, 1).out
  IN  [i \in 1..Len(out) |-> out[i].text]

---------------------------------------------------------------------------
(* The title extractor.                                                    *)

RECURSIVE skip_space(_, _)
skip_space(s, i) == IF i <= Len(s) /\ IsSpace(s[i]) THEN skip_space(s, i + 1) ELSE i

IsDelim(c) == c \in {"}", "\""}

\* The match of  title\s*=\s*[{"](.+?)[}"]  (IGNORECASE, DOTALL) that starts
\* at position i: the span <<from, to>> of group 1, or <<>> when there is none.
\* .+? takes the shortest non-empty run that a closing delimiter follows.
title_match_at(entry, i) ==
  LET n  == Len(entry)
      eq == skip_space(entry, i + 5)
      op == skip_space(entry, eq + 1)
      cl == { j \in (op + 2)..n : IsDelim(entry[j]) }
  IN  IF /\ i + 4 <= n
         /\ str_lower(SubSeq(entry, i, i + 4)) = <<"t","i","t","l","e">>
         /\ eq <= n /\ entry[eq] = "="
         /\ op <= n /\ entry[op] \in {"{", "\""}
         /\ cl # {}
      THEN <<op + 1, Min(cl) - 1>>
      ELSE <<>>

\* re.sub(r"\s+", " ", s): every run of whitespace becomes one space
RECURSIVE collapse_space(_)
collapse_space(s) ==
  LET sp == { i \in 1..Len(s) : IsSpace(s[i]) }
  IN  IF sp = {} THEN s
      ELSE LET i == Min(sp)
           IN  SubSeq(s, 1, i - 1) \o <<" ">>
               \o collapse_space(str_lstrip(SubSeq(s, i, Len(s))))

\* re.search takes the leftmost position at which the pattern matches
extract_title(entry) ==
  LET starts == { i \in 1..Len(entry) : title_match_at(entry, i) # <<>> }
  IN  IF starts = {} THEN None
      ELSE LET g == title_match_at(entry, Min(starts))
               t == str_strip(str_replace(SubSeq(entry, g[1], g[2]), NL, <<" ">>))
           IN  collapse_space(t)

---------------------------------------------------------------------------
(* The frequency aggregator and the min-freq filter.                       *)

\* a dict is a function on its set of keys
dict_empty == [k \in {} |-> 0]
dict_get(d, k, default) == IF k \in DOMAIN d THEN d[k] ELSE default
dict_set(d, k, v) == [x \in (DOMAIN d) \cup {k} |-> IF x = k THEN v ELSE d[x]]

\* for k in p['keywords']: freq[k] = freq.get(k,0)+1
RECURSIVE count_keywords(_, _)
count_keywords(fq, ks) ==
  IF ks = <<>> THEN fq
  ELSE count_keywords(dict_set(fq, Head(ks), dict_get(fq, Head(ks), 0) + 1), Tail(ks))

RECURSIVE aggregate_from(_, _)
aggregate_from(fq, ps) ==
  IF ps = <<>> THEN fq ELSE aggregate_from(count_keywords(fq, Head(ps).keywords), Tail(ps))

\* counts only the first keyword of every publication
aggregate_first_keyword_only(ps) ==
  aggregate_from(dict_empty,
     [i \in 1..Len(ps) |-> [keywords |-> SubSeq(ps[i].keywords, 1, 1)]])

aggregate_keyword_freq(ps) == aggregate_from(dict_empty, ps)

\* keeps the keywords below the threshold instead of those at or above it
filter_keywords_below(ps, fq, T) ==
  [i \in 1..Len(ps) |->
     [ps[i] EXCEPT !.keywords = SelectSeq(@, LAMBDA k : dict_get(fq, k, 0) < T)]]

\* p['keywords'] = [k for k in p['keywords'] if freq.get(k,0) >= args.min_freq]
filter_keywords(ps, fq, T) ==
  [i \in 1..Len(ps) |->
     [ps[i] EXCEPT !.keywords = SelectSeq(@, LAMBDA k : dict_get(fq, k, 0) >= T)]]

---------------------------------------------------------------------------
(* Bounds and inputs.                                                      *)

MaxLines      == 4   \* lines of the text given to iter_bib_entries
MaxTitleWords == 3   \* words of the title given to the keyword extractor
MaxEntries    == 3   \* records of the bibliography file given to main
MaxMinFreq    == 3   \* largest --min-freq

SEG_LINES ==
  { <<"@","a","{">>, <<" ","@","b">>, <<"x">>, <<"}">>, <<"@","c","{","}","}">>, <<"{","y","}">> }

TITLE_WORDS ==
  { <<"K","n","o","w","l","e","d","g","e"," ","G","r","a","p","h","s">>, <<"O","n","t","o","l","o","g","y"," ","M","a","p","p","i","n","g","s">>, <<"S","e","m","a","n","t","i","c">>, <<"W","e","b">>,
    <<"H","e","a","l","t","h","c","a","r","e"," ","C","a","f","e_acute">>, <<"t","h","e">>, <<"D","a","t","a","-","d","r","i","v","e","n">> }

BIB_RECORDS ==
  { <<"@","a","r","t","i","c","l","e","{","a",","," ","t","i","t","l","e","=","{","O","n","t","o","l","o","g","y"," ","M","a","p","p","i","n","g","s","}","}">>,
    <<"@","i","n","p","r","o","c","e","e","d","i","n","g","s","{","b",","," ","b","o","o","k","t","i","t","l","e","=","{","S","e","m","a","n","t","i","c"," ","W","e","b","}","}">>,
    <<"@","m","i","s","c","{","c",","," ","y","e","a","r","=","2","0","2","0","}">>,
    <<"@","a","r","t","i","c","l","e","{","d",",","\n"," "," ","T","i","t","l","e"," ","="," ","\"","O","n","t","o","l","o","g","y","\n"," ","o","f"," "," "," ","C","a","r","e","\"","\n","}">>,
    <<"@","b","o","o","k","{","e",","," ","t","i","t","l","e","=","{"," ","}","}">> }

SeqsUpTo(S, n) == UNION { [1..m -> S] : m \in 0..n }

NoFile == [written |-> FALSE]

---------------------------------------------------------------------------
(* iter_bib_entries, one line per step.                                    *)

SegIdle ==
  /\ bib_lines = <<>> /\ pos = 0 /\ current = <<>> /\ depth = 0
  /\ inside = FALSE /\ yielded = <<>>

KwIdle ==
  /\ kpc = "idle" /\ title = <<>> /\ phrases = <<>> /\ tokens = <<>> /\ keywords = <<>>

MainIdle ==
  /\ pc = "idle" /\ bib_exists = FALSE /\ bib_file = <<>> /\ min_freq = 1
  /\ text = <<>> /\ entries = <<>> /\ titles = <<>> /\ pubs = <<>>
  /\ freq = dict_empty /\ out_dir_exists = FALSE /\ out_file = NoFile
  /\ exit_status = -1 /\ stderr = <<>>

InitSeg ==
  /\ \E ls \in SeqsUpTo(SEG_LINES, MaxLines) : bib_lines = str_splitlines(str_join(NL, ls))
  /\ pos = 0 /\ current = <<>> /\ depth = 0 /\ inside = FALSE /\ yielded = <<>>
  /\ KwIdle /\ MainIdle

seg_state == [current |-> current, depth |-> depth, inside |-> inside, out |-> yielded]

SegLine ==
  /\ pos < Len(bib_lines)
  /\ LET st == seg_line(seg_state, bib_lines, pos + 1)
     IN  /\ current' = st.current
         /\ depth'   = st.depth
         /\ inside'  = st.inside
         /\ yielded' = st.out
  /\ pos' = pos + 1
  /\ UNCHANGED << bib_lines, kwVars, mainVars >>

SegEnd ==
  /\ pos = Len(bib_lines)
  /\ LET st == seg_end(seg_state, bib_lines)
     IN  /\ current' = st.current
         /\ yielded' = st.out
  /\ pos' = pos + 1
  /\ UNCHANGED << bib_lines, depth, inside, kwVars, mainVars >>

NextSeg == SegLine \/ SegEnd
SpecSeg == InitSeg /\ [][NextSeg]_vars

---------------------------------------------------------------------------
(* build_publication_keywords on one title, one call per step.             *)

InitKw ==
  /\ \E ws \in SeqsUpTo(TITLE_WORDS, MaxTitleWords) : title = str_join(<<" ">>, ws)
  /\ kpc = "loop" /\ phrases = <<>> /\ tokens = <<>> /\ keywords = <<>>
  /\ SegIdle /\ MainIdle

\* if not t: continue
KwSkip ==
  /\ kpc = "loop" /\ title = <<>>
  /\ kpc' = "skipped"
  /\ UNCHANGED << title, phrases, tokens, keywords, segVars, mainVars >>

KwPhraseScan ==
  /\ kpc = "loop" /\ title # <<>>
  /\ phrases' = phrase_scan(strip_accents(str_lower(title)))
  /\ kpc' = "tokenize"
  /\ UNCHANGED << title, tokens, keywords, segVars, mainVars >>

KwTokenize ==
  /\ kpc = "tokenize"
  /\ tokens' = tokenize_remainder(title, phrases)
  /\ kpc' = "concat"
  /\ UNCHANGED << title, phrases, keywords, segVars, mainVars >>

KwConcat ==
  /\ kpc = "concat"
  /\ keywords' = phrases \o tokens
  /\ kpc' = "done"
  /\ UNCHANGED << title, phrases, tokens, segVars, mainVars >>

NextKw == KwSkip \/ KwPhraseScan \/ KwTokenize \/ KwConcat
SpecKw == InitKw /\ [][NextKw]_vars

---------------------------------------------------------------------------
(* main.                                                                   *)

InitMain ==
  /\ bib_exists \in BOOLEAN
  /\ IF bib_exists
     THEN \E rs \in SeqsUpTo(BIB_RECORDS, MaxEntries) : bib_file = str_join(NL, rs)
     ELSE bib_file = <<>>
  /\ min_freq \in 1..MaxMinFreq
  /\ out_dir_exists \in BOOLEAN
  /\ out_file = NoFile
  /\ pc = "start" /\ text = <<>> /\ entries = <<>> /\ titles = <<>> /\ pubs = <<>>
  /\ freq = dict_empty /\ exit_status = -1 /\ stderr = <<>>
  /\ SegIdle /\ KwIdle

\* the exit without the sys.exit(1): the run goes on to the output steps
MainBibNotFound_no_exit ==
  /\ pc = "start" /\ ~bib_exists
  /\ stderr' = <<"B","i","b"," ","f","i","l","e"," ","n","o","t"," ","f","o","u","n","d">>
  /\ pc' = "mkdir"
  /\ UNCHANGED << exit_status, bib_exists, bib_file, min_freq, text, entries, titles, pubs,
                  freq, out_dir_exists, out_file, segVars, kwVars >>

\* lines 138-140
MainBibNotFound ==
  /\ pc = "start" /\ ~bib_exists
  /\ stderr' = <<"B","i","b"," ","f","i","l","e"," ","n","o","t"," ","f","o","u","n","d">>
  /\ exit_status' = 1
  /\ pc' = "exited"
  /\ UNCHANGED << bib_exists, bib_file, min_freq, text, entries, titles, pubs, freq,
                  out_dir_exists, out_file, segVars, kwVars >>

\* line 141
MainRead ==
  /\ pc = "start" /\ bib_exists
  /\ text' = bib_file
  /\ pc' = "titles"
  /\ UNCHANGED << bib_exists, bib_file, min_freq, entries, titles, pubs, freq,
                  out_dir_exists, out_file, exit_status, stderr, segVars, kwVars >>

\* line 142; entries records what the generator yielded
MainTitles ==
  /\ pc = "titles"
  /\ entries' = iter_bib_entries(text)
  /\ titles' = [i \in 1..Len(entries') |-> extract_title(entries'[i])]
  /\ pc' = "pubs"
  /\ UNCHANGED << bib_exists, bib_file, min_freq, text, pubs, freq,
                  out_dir_exists, out_file, exit_status, stderr, segVars, kwVars >>

\* line 143
MainBuild ==
  /\ pc = "pubs"
  /\ pubs' = build_publication_keywords(titles)
  /\ pc' = "freq"
  /\ UNCHANGED << bib_exists, bib_file, min_freq, text, entries, titles, freq,
                  out_dir_exists, out_file, exit_status, stderr, segVars, kwVars >>

\* line 144
MainAggregate ==
  /\ pc = "freq"
  /\ freq' = aggregate_keyword_freq(pubs)
  /\ pc' = "filter"
  /\ UNCHANGED << bib_exists, bib_file, min_freq, text, entries, titles, pubs,
                  out_dir_exists, out_file, exit_status, stderr, segVars, kwVars >>

\* lines 147-149
MainFilter ==
  /\ pc = "filter"
  /\ pubs' = IF min_freq > 1 THEN filter_keywords(pubs, freq, min_freq) ELSE pubs
  /\ pc' = "mkdir"
  /\ UNCHANGED << bib_exists, bib_file, min_freq, text, entries, titles, freq,
                  out_dir_exists, out_file, exit_status, stderr, segVars, kwVars >>

\* lines 151-152
MainMkdir ==
  /\ pc = "mkdir"
  /\ out_dir_exists' = TRUE
  /\ pc' = "write"
  /\ UNCHANGED << bib_exists, bib_file, min_freq, text, entries, titles, pubs, freq,
                  out_file, exit_status, stderr, segVars, kwVars >>

\* lines 153-155
MainWrite ==
  /\ pc = "write"
  /\ out_file' = [ written |-> TRUE,
                   publications |-> pubs,
                   generatedFrom |-> <<"M","a","r","c","o","s",".","b","i","b">>,
                   totalPublications |-> Len(pubs) ]
  /\ exit_status' = 0
  /\ pc' = "done"
  /\ UNCHANGED << bib_exists, bib_file, min_freq, text, entries, titles, pubs, freq,
                  out_dir_exists, stderr, segVars, kwVars >>

NextMain ==
  \/ MainBibNotFound \/ MainRead \/ MainTitles \/ MainBuild
  \/ MainAggregate \/ MainFilter \/ MainMkdir \/ MainWrite
SpecMain == InitMain /\ [][NextMain]_vars

\* the three runs together
Init == InitSeg \/ InitKw \/ InitMain
Next == NextSeg \/ NextKw \/ NextMain
Spec == Init /\ [][Next]_vars

---------------------------------------------------------------------------
(* Properties of the keyword extractor.                                    *)

NoDuplicates(s) == \A i, j \in 1..Len(s) : i # j => s[i] # s[j]

\* the canonical labels, and the numbers of the phrases that occur in a title
LABELS == { NORM[p] : p \in DOMAIN NORM }
MatchedPhrases(t) ==
  { i \in 1..Len(PHRASES) : str_contains(PHRASES[i], strip_accents(str_lower(t))) }
FirstOccurrence(p, s) ==
  Min({ i \in 1..Len(s) : i + Len(p) - 1 <= Len(s) /\ SubSeq(s, i, i + Len(p) - 1) = p })

\* C1: the keyword list stored for a publication contains no keyword twice.
C1_KeywordsDistinct == kpc = "done" => NoDuplicates(keywords)

\* C5: the keyword list is one phrase keyword per phrase that occurs in the
\* title, in the order of PHRASES, followed by the token keywords in strictly
\* ascending code point order; no token keyword precedes a phrase keyword.
C5_PhrasesThenSortedTokens ==
  kpc = "done" =>
    LET M == MatchedPhrases(title)
        n == Cardinality(M)
    IN  /\ n <= Len(keywords)
        /\ \A m \in M : keywords[Cardinality({ x \in M : x <= m })] = NORM[PHRASES[m]]
        /\ \A i \in (n + 1)..Len(keywords) : keywords[i] \notin LABELS
        /\ \A i, j \in (n + 1)..Len(keywords) : i < j => str_lt(keywords[i], keywords[j])

\* two phrases occur in the title in the opposite order of PHRASES, and the
\* title has two token keywords whose order of appearance is not ascending
C5_Witness ==
  /\ kpc = "done"
  /\ LET lt == strip_accents(str_lower(title))
         M  == MatchedPhrases(title)
     IN  /\ \E a, b \in M : a < b /\ FirstOccurrence(PHRASES[a], lt) > FirstOccurrence(PHRASES[b], lt)
         /\ Len(tokens) >= 2
         /\ tokenize_remainder_unsorted(title, phrases) # tokens


---------------------------------------------------------------------------
(* Properties of the entry segmenter.                                      *)

Range(s) == { s[i] : i \in 1..Len(s) }

\* the numbers of the input lines whose trimmed content starts with '@'
AtLines == { k \in 1..Len(bib_lines) : starts_record(bib_lines[k]) }
NthAtLine(n) == CHOOSE x \in AtLines : Cardinality({ y \in AtLines : y <= x }) = n

HasBrace(line) == str_count(line, "{") + str_count(line, "}") > 0

RECURSIVE own_depth(_, _)
\* the brace depth of lines i..j alone
own_depth(i, j) == IF j < i THEN 0 ELSE own_depth(i, j - 1) + brace_delta(bib_lines[j])

\* the record that starts on '@' line i balances its braces on line j > i
BalancesAt(i, j) ==
  /\ i \in AtLines /\ j > i /\ j <= Len(bib_lines)
  /\ \A m \in (i + 1)..j : m \notin AtLines
  /\ \A m \in i..(j - 1) : own_depth(i, m) > 0
  /\ own_depth(i, j) <= 0

\* C4: an entry whose lines contain no brace is never yielded by the depth
\* check, only by the next '@' line or by the end of the input.
C4_BracelessNotClosedByDepth ==
  \A n \in 1..Len(yielded) :
    (\A k \in Range(yielded[n].lines) : ~HasBrace(bib_lines[k])) => yielded[n].by # "depth"

\* C9: a record whose own braces balance over several lines is yielded as one
\* entry holding its '@' line through the line where its braces balance,
\* whatever precedes it.
C9_DepthCountsOwnLines ==
  pos = Len(bib_lines) + 1 =>
    \A i, j \in 1..Len(bib_lines) :
      BalancesAt(i, j) =>
        \E n \in 1..Len(yielded) : yielded[n].lines = [m \in 1..(j - i + 1) |-> i + m - 1]

\* C10: one entry per '@' line, in input order; an entry begins with its '@'
\* line and holds no other; no input line is in two entries.
C10_OneEntryPerAtLine ==
  /\ \A n \in 1..Len(yielded) :
       LET e == yielded[n].lines
       IN  /\ e # <<>>
           /\ e[1] = NthAtLine(n)
           /\ \A m \in 2..Len(e) : e[m] \notin AtLines
           /\ NoDuplicates(e)
  /\ \A n1, n2 \in 1..Len(yielded) :
       n1 # n2 => Range(yielded[n1].lines) \cap Range(yielded[n2].lines) = {}
  /\ pos = Len(bib_lines) + 1 => Len(yielded) = Cardinality(AtLines)

\* the input is consumed, an entry was flushed by the '@' line after it, an
\* entry has several lines and a line outside every entry was dropped
C10_Witness ==
  /\ pos = Len(bib_lines) + 1
  /\ Len(yielded) >= 2
  /\ \E n \in 1..Len(yielded) : yielded[n].by = "flush" /\ Len(yielded[n].lines) >= 2
  /\ \E k \in 1..Len(bib_lines) : \A n \in 1..Len(yielded) : k \notin Range(yielded[n].lines)

---------------------------------------------------------------------------
(* Properties of main.                                                     *)

KeywordSet(p) == Range(p.keywords)
AfterAggregate == pc \in {"filter", "mkdir", "write", "done"}

\* C2: the count of a keyword is the number of publications whose keyword
\* list contains it.
C2_FreqCountsPublications ==
  pc = "filter" =>
    \A k \in DOMAIN freq :
      freq[k] = Cardinality({ i \in 1..Len(pubs) : k \in KeywordSet(pubs[i]) })

\* the entry has a field whose name is exactly title (any case)
IsFieldNameChar(c) == IsAsciiLetter(c) \/ IsIn(c, <<"0","1","2","3","4","5","6","7","8","9","-">>)
HasTitleField(entry) ==
  \E i \in 1..(Len(entry) - 4) :
    /\ str_lower(SubSeq(entry, i, i + 4)) = <<"t","i","t","l","e">>
    /\ (i = 1 \/ ~IsFieldNameChar(entry[i - 1]))
    /\ LET eq == skip_space(entry, i + 5) IN eq <= Len(entry) /\ entry[eq] = "="

\* C3: an entry without a title field gives no publication and is not
\* counted in totalPublications.
C3_NoTitleNoPublication ==
  pc = "done" =>
    /\ \A i \in 1..Len(entries) : ~HasTitleField(entries[i]) => titles[i] = None
    /\ out_file.totalPublications
         <= Cardinality({ i \in 1..Len(entries) : HasTitleField(entries[i]) })

\* C6: after aggregation and after the filter pass every keyword of every
\* publication is a key of freq with count >= 1, and the filter pass leaves
\* freq as it was.
C6_KeywordsAreFreqKeys ==
  /\ [](AfterAggregate =>
          \A i \in 1..Len(pubs) : \A k \in KeywordSet(pubs[i]) :
            k \in DOMAIN freq /\ freq[k] >= 1)
  /\ [][pc = "filter" => freq' = freq]_vars

\* the filter pass ran with a threshold above 1, dropped a keyword from the
\* lists and kept another
C6_Witness ==
  /\ pc = "mkdir" /\ min_freq > 1
  /\ \E i \in 1..Len(pubs) : pubs[i].keywords # <<>>
  /\ \E k \in DOMAIN freq : \A i \in 1..Len(pubs) : k \notin KeywordSet(pubs[i])

\* the lists the filter pass leaves under threshold T when given the lists ps
RetainedUnder(ps, T) == IF T > 1 THEN filter_keywords(ps, freq, T) ELSE ps

\* C7: what the filter pass retains under the run's threshold min_freq is,
\* publication by publication, a subset of what any smaller threshold
\* T1 >= 1 retains from the same lists (T1 = 1 retains everything).
C7_ThresholdMonotone ==
  [][pc = "filter" =>
       \A T1 \in 1..(min_freq - 1) :
         LET r1 == RetainedUnder(pubs, T1)
         IN  \A i \in 1..Len(pubs) : KeywordSet(pubs'[i]) \subseteq KeywordSet(r1[i])]_vars

\* the run filtered with threshold 3, and for some publication the three
\* thresholds 1, 2, 3 retain three different keyword sets
C7_Witness ==
  /\ pc = "mkdir" /\ min_freq = 3
  /\ LET ps == build_publication_keywords(titles)
         r2 == RetainedUnder(ps, 2)
     IN  \E i \in 1..Len(pubs) :
           /\ KeywordSet(pubs[i]) # KeywordSet(r2[i])
           /\ KeywordSet(r2[i]) # KeywordSet(ps[i])

\* C8: with the input file missing the run ends in the error state (message
\* on stderr, exit status 1) before anything is processed, and neither the
\* output directory nor the output file is created or written.
C8_MissingInputAborts ==
  /\ [](~bib_exists /\ pc # "start" =>
          /\ pc = "exited" /\ exit_status = 1 /\ stderr # <<>>
          /\ text = <<>> /\ entries = <<>> /\ titles = <<>> /\ pubs = <<>>
          /\ out_file = NoFile)
  /\ [][~bib_exists => out_dir_exists' = out_dir_exists /\ out_file' = out_file]_vars

\* the run has exited on the missing file and no output directory exists
C8_Witness == pc = "exited" /\ ~bib_exists /\ ~out_dir_exists /\ exit_status = 1

====
